---------------------------- MODULE Spec2Model ----------------------------
(***************************************************************************)
(* A model of the template subsystem of transcribe_to_gpt:                 *)
(*   - TemplateConfig / TemplateManager (template_manager.py),             *)
(*   - the template-management workflow of the CLI (main.py),              *)
(*   - the two analyzers: TranscriptionAnalyzer.analyze_transcription of   *)
(*     template_manager.py (store backed) and                              *)
(*     TranscriptionAnalyzer.analyze_transcription_with_template of        *)
(*     gpt_analyzer.py (prompt composer).                                  *)
(*   - the pipeline of the two mains (main.py, transcribe_to_gpt/main.py)  *)
(*     with WhisperTranscriber.transcribe_audio (whisper_transcriber.py),  *)
(*   - APIConfig and get_config (config.py).                               *)
(*                                                                         *)
(* Encoding of Python values:                                              *)
(*   str            a sequence of atoms (TLA+ strings); concatenation is   *)
(*                  \o, the empty string is << >>.  A template name is a   *)
(*                  sequence of one-character atoms, so that isalnum() and *)
(*                  the path arithmetic can look at its characters.        *)
(*   None           for an Optional[str] the reserved value None, for an   *)
(*                  Optional[List[str]] the reserved value NoneList, for a *)
(*                  float the record NoneF.                                *)
(*   float          [kind, tenths]: a number in tenths, or NaN.            *)
(*   dict (ordered) a sequence of records keyed by their name field        *)
(*                  (TemplateManager.templates), or a TLA+ function whose  *)
(*                  DOMAIN is the key set (JSON objects, kwargs).          *)
(*   Optional[X] returned by a call: << >> (None) or << x >>.              *)
(***************************************************************************)
EXTENDS Integers, Sequences, FiniteSets, TLC

VARIABLES
    templates,      \* TemplateManager.templates of the live store
    disk,           \* the files written so far: path -> content
    saved,          \* history: name -> record of the last successful save into the live store
    last,           \* what the last operation was given and what it returned
    ops             \* number of operations performed (bounds the run)

vars == <<templates, disk, saved, last, ops>>

\* Bound on the number of operations of one behaviour.
MaxOps == 3

-----------------------------------------------------------------------------
(* Python values *)

None == <<"<None>">>
NoneList == << <<"<None>">> >>

\* bool(s) for an Optional[str]: None and "" are falsy.
Truthy(s) == s # None /\ s # << >>

\* bool(l) for an Optional[List[str]]: None and [] are falsy.
TruthyList(l) == l # NoneList /\ l # << >>

F(n) == [kind |-> "num", tenths |-> n]
NaN == [kind |-> "nan", tenths |-> 0]
NoneF == [kind |-> "none", tenths |-> 0]

\* x < n and x > n of Python floats, n given in tenths: every comparison with
\* NaN is False.
FloatLt(x, n) == x.kind = "num" /\ x.tenths < n
FloatGt(x, n) == x.kind = "num" /\ x.tenths > n

Letters == {"a", "b", "c", "d", "e", "f", "g", "h", "i", "j", "k", "l", "m",
            "n", "o", "p", "q", "r", "s", "t", "u", "v", "w", "x", "y", "z"}
Digits == {"0", "1", "2", "3", "4", "5", "6", "7", "8", "9"}

\* str.isalnum(): at least one character and every character alphanumeric.
IsAlnum(s) == Len(s) > 0 /\ \A i \in 1..Len(s) : s[i] \in Letters \cup Digits

\* sep.join(parts) for a list of strings.
RECURSIVE Join(_, _)
Join(parts, sep) ==
    IF parts = << >> THEN << >>
    ELSE IF Len(parts) = 1 THEN parts[1]
    ELSE parts[1] \o sep \o Join(Tail(parts), sep)

-----------------------------------------------------------------------------
(* template_manager.py: TemplateCategory, TemplateConfig *)

\* The members of the enumeration and their values.
TemplateCategory == <<"ANALYSIS", "TECHNICAL", "BUSINESS", "CUSTOM">>
CategoryValue(member) ==
    CASE member = "ANALYSIS" -> "analysis"
      [] member = "TECHNICAL" -> "technical"
      [] member = "BUSINESS" -> "business"
      [] member = "CUSTOM" -> "custom"

CategoryMembers == {TemplateCategory[i] : i \in 1..Len(TemplateCategory)}

\* TemplateCategory(value): << member >>, or << >> for the ValueError.
CategoryOf(value) ==
    IF \E m \in CategoryMembers : CategoryValue(m) = value
    THEN << CHOOSE m \in CategoryMembers : CategoryValue(m) = value >>
    ELSE << >>

RequiredFields == {"name", "category", "system_prompt", "instruction", "temperature"}
OptionalFields == {"focus_topics", "output_format", "description", "version"}

\* TemplateConfig(**kw) for a dict kw holding every required field: the
\* dataclass defaults fill the optional fields that are missing.
TemplateConfig(kw) ==
    [name |-> kw.name,
     category |-> kw.category,
     system_prompt |-> kw.system_prompt,
     instruction |-> kw.instruction,
     temperature |-> kw.temperature,
     focus_topics |-> IF "focus_topics" \in DOMAIN kw THEN kw.focus_topics ELSE NoneList,
     output_format |-> IF "output_format" \in DOMAIN kw THEN kw.output_format ELSE None,
     description |-> IF "description" \in DOMAIN kw THEN kw.description ELSE None,
     version |-> IF "version" \in DOMAIN kw THEN kw.version ELSE <<"1.0">>]

\* TemplateConfig.to_dict: the category is written as its value.
ToDict(t) ==
    [name |-> t.name,
     category |-> CategoryValue(t.category),
     system_prompt |-> t.system_prompt,
     instruction |-> t.instruction,
     temperature |-> t.temperature,
     focus_topics |-> t.focus_topics,
     output_format |-> t.output_format,
     description |-> t.description,
     version |-> t.version]

\* TemplateConfig.from_dict: << record >>, or << >> when it raises (KeyError
\* for a missing category, ValueError for an unknown one, TypeError for a
\* missing or unexpected field).
FromDict(data) ==
    IF "category" \notin DOMAIN data THEN << >>
    ELSE IF CategoryOf(data.category) = << >> THEN << >>
    ELSE IF ~(RequiredFields \subseteq DOMAIN data
              /\ DOMAIN data \subseteq RequiredFields \cup OptionalFields) THEN << >>
    ELSE << TemplateConfig([k \in DOMAIN data |->
                IF k = "category" THEN CategoryOf(data.category)[1] ELSE data[k]]) >>

-----------------------------------------------------------------------------
(* template_manager.py: TemplateManager *)

summary == <<"s", "u", "m", "m", "a", "r", "y">>
technical_specs == <<"t", "e", "c", "h", "n", "i", "c", "a", "l", "_", "s", "p", "e", "c", "s">>

\* The literal of _load_default_templates, in its insertion order.
default_templates ==
    << TemplateConfig(
         [name |-> summary,
          category |-> "ANALYSIS",
          system_prompt |-> <<"You are generating a transcript summary. Focus on extracting and organizing the main points while maintaining clarity and brevity.">>,
          instruction |-> <<"Create a concise summary of the main points discussed">>,
          temperature |-> F(3),
          description |-> <<"Creates concise summaries of transcripts">>]),
       TemplateConfig(
         [name |-> technical_specs,
          category |-> "TECHNICAL",
          system_prompt |-> <<"You are a technical specification analyzer. Focus on technical details, requirements, and architectural decisions.">>,
          instruction |-> <<"Extract technical specifications and architectural decisions">>,
          temperature |-> F(2),
          focus_topics |-> << <<"requirements">>, <<"architecture">>, <<"technologies">>, <<"constraints">> >>,
          output_format |-> <<"# Technical Specifications ...">>,
          description |-> <<"Analyzes technical discussions and specifications">>]) >>

\* d[key] = value of an insertion-ordered dict: an existing key keeps its
\* position and gets the new value, a new key is appended.
DictSetAppendOnly(d, key, value) == Append(d, value)

DictSet(d, key, value) ==
    IF \E i \in 1..Len(d) : d[i].name = key
    THEN [i \in 1..Len(d) |-> IF d[i].name = key THEN value ELSE d[i]]
    ELSE Append(d, value)

\* d.update(other), other an ordered dict.
RECURSIVE DictUpdate(_, _)
DictUpdate(d, other) ==
    IF other = << >> THEN d
    ELSE DictUpdate(DictSet(d, Head(other).name, Head(other)), Tail(other))

\* d.get(key): << value >> or << >> (None).
DictGet(d, key) ==
    IF \E i \in 1..Len(d) : d[i].name = key
    THEN << d[CHOOSE i \in 1..Len(d) : d[i].name = key] >>
    ELSE << >>

\* TemplateManager._load_default_templates
LoadDefaultTemplates(tpls) == DictUpdate(tpls, default_templates)

\* TemplateManager.get_template
GetTemplate(tpls, name) == DictGet(tpls, name)

\* TemplateManager.list_templates; category << >> is "no filter".
ListTemplatesUnfiltered(tpls, category) == [i \in 1..Len(tpls) |-> tpls[i].name]

ListTemplates(tpls, category) ==
    IF category # << >>
    THEN LET keep == {i \in 1..Len(tpls) : tpls[i].category = category[1]}
             RECURSIVE Sel(_)
             Sel(i) == IF i > Len(tpls) THEN << >>
                       ELSE IF i \in keep THEN <<tpls[i].name>> \o Sel(i + 1)
                       ELSE Sel(i + 1)
         IN Sel(1)
    ELSE [i \in 1..Len(tpls) |-> tpls[i].name]

NameError == "Template name must be alphanumeric"
TemperatureError == "Temperature must be between 0 and 1"
RequiredError == "System prompt and instruction are required"

\* TemplateManager.validate_template: the three checks, each evaluated; the
\* comparison of a None temperature with a number raises TypeError.
ValidateTemplate(t) ==
    LET e1 == IF ~Truthy(t.name) \/ ~IsAlnum(t.name) THEN <<NameError>> ELSE << >>
        e2 == IF FloatLt(t.temperature, 0) \/ FloatGt(t.temperature, 10)
              THEN <<TemperatureError>> ELSE << >>
        e3 == IF ~Truthy(t.system_prompt) \/ ~Truthy(t.instruction)
              THEN <<RequiredError>> ELSE << >>
    IN IF t.temperature = NoneF
       THEN [raised |-> TRUE, errors |-> << >>]
       ELSE [raised |-> FALSE, errors |-> e1 \o e2 \o e3]

-----------------------------------------------------------------------------
(* The storage location.  A path is [where, file]: "dir" is a file directly *)
(* inside templates_dir, "outside" a file the path arithmetic places         *)
(* elsewhere, "missing" a path through a directory that does not exist       *)
(* (the program creates no directory but templates_dir itself).              *)

HasSeparator(name) == \E i \in 1..Len(name) : name[i] = "/"

\* self.templates_dir / f"{name}.json": an absolute name replaces the
\* directory, ".." leaves it, any other directory part names a subdirectory.
TemplatePath(name) ==
    LET file == name \o <<".json">>
    IN IF ~HasSeparator(name) THEN [where |-> "dir", file |-> file]
       ELSE IF name[1] = "/" THEN [where |-> "outside", file |-> file]
       ELSE IF Len(name) >= 3 /\ SubSeq(name, 1, 3) = <<".", ".", "/">>
                 /\ ~HasSeparator(SubSeq(name, 4, Len(name)))
            THEN [where |-> "outside", file |-> file]
       ELSE [where |-> "missing", file |-> file]

\* self.templates_dir.glob('*.json'): the files directly inside the directory
\* whose name ends in .json (not recursive; every order is possible).
Glob(d) == {p \in DOMAIN d : p.where = "dir" /\ p.file # << >>
                              /\ p.file[Len(p.file)] = ".json"}

Orderings(S) == {o \in [1..Cardinality(S) -> S] :
                    \A i, j \in 1..Cardinality(S) : i # j => o[i] # o[j]}

\* A file holds << >> (nothing that json.load can parse) or << object >>.
\* The body of the loop of _load_custom_templates for one file: a file that
\* does not parse, or that from_dict rejects, is reported and skipped.
LoadOne(tpls, content) ==
    IF content = << >> THEN tpls
    ELSE IF FromDict(content[1]) = << >> THEN tpls
    ELSE DictSet(tpls, FromDict(content[1])[1].name, FromDict(content[1])[1])

\* TemplateManager._load_custom_templates, for one order of the glob.
RECURSIVE LoadCustomTemplatesAbortOnError(_, _, _)
LoadCustomTemplatesAbortOnError(tpls, d, order) ==
    IF order = << >> THEN tpls
    ELSE IF d[Head(order)] = << >> THEN tpls
    ELSE IF FromDict(d[Head(order)][1]) = << >> THEN tpls
    ELSE LoadCustomTemplatesAbortOnError(LoadOne(tpls, d[Head(order)]), d, Tail(order))

RECURSIVE LoadCustomTemplates(_, _, _)
LoadCustomTemplates(tpls, d, order) ==
    IF order = << >> THEN tpls
    ELSE LoadCustomTemplates(LoadOne(tpls, d[Head(order)]), d, Tail(order))

\* TemplateManager.__init__ on the storage location d: the defaults, then
\* the custom templates.
NewTemplateManagerCustomFirst(d, order) ==
    LoadDefaultTemplates(LoadCustomTemplates(<< >>, d, order))

NewTemplateManager(d, order) ==
    LoadCustomTemplates(LoadDefaultTemplates(<< >>), d, order)

\* The file system's answers to open(path, 'w') and to the writes that
\* follow: "ok", "open" (the open fails, nothing is created) or "write" (the
\* file was created or truncated and the dump did not complete).
Faults == {"ok", "open", "write"}

\* TemplateManager.save_template: [raised, templates, disk] after the call.
SaveTemplateMappingFirst(tpls, d, t, fault) ==
    LET path == TemplatePath(t.name)
    IN IF path.where = "missing" \/ fault = "open"
       THEN [raised |-> TRUE, templates |-> DictSet(tpls, t.name, t), disk |-> d]
       ELSE IF fault = "write"
       THEN [raised |-> TRUE, templates |-> DictSet(tpls, t.name, t),
             disk |-> (path :> << >>) @@ d]
       ELSE [raised |-> FALSE,
             templates |-> DictSet(tpls, t.name, t),
             disk |-> (path :> <<ToDict(t)>>) @@ d]

SaveTemplate(tpls, d, t, fault) ==
    LET path == TemplatePath(t.name)
    IN IF path.where = "missing" \/ fault = "open"
       THEN [raised |-> TRUE, templates |-> tpls, disk |-> d]
       ELSE IF fault = "write"
       THEN [raised |-> TRUE, templates |-> tpls, disk |-> (path :> << >>) @@ d]
       ELSE [raised |-> FALSE,
             templates |-> DictSet(tpls, t.name, t),
             disk |-> (path :> <<ToDict(t)>>) @@ d]

-----------------------------------------------------------------------------
(* main.py: handle_template_management *)

\* The lines the listing prints: for each category, in the enumeration's
\* order, that has templates, its value and one line per template.
Listing(tpls) ==
    LET Lines(names) ==
            [i \in 1..Len(names) |->
                LET t == GetTemplate(tpls, names[i])
                IN IF t # << >> /\ Truthy(t[1].description)
                   THEN [name |-> names[i], description |-> t[1].description]
                   ELSE [name |-> names[i], description |-> << >>]]
        RECURSIVE Cat(_)
        Cat(i) ==
            IF i > Len(TemplateCategory) THEN << >>
            ELSE LET names == ListTemplates(tpls, <<TemplateCategory[i]>>)
                 IN IF names # << >>
                    THEN << [category |-> CategoryValue(TemplateCategory[i]),
                             lines |-> Lines(names)] >> \o Cat(i + 1)
                    ELSE Cat(i + 1)
    IN Cat(1)

\* What handle_template_management returns and leaves behind.  printed is the
\* kind of its output: "listing", "errors" (validation errors), "created",
\* "error" (a caught exception) or "none".
Handled(tpls, d, printed, errors, listing) ==
    [handled |-> printed # "none", templates |-> tpls, disk |-> d,
     printed |-> printed, errors |-> errors, listing |-> listing]

HandleTemplateManagementNoCheck(tpls, d, args, fault) ==
    IF args.list_templates THEN Handled(tpls, d, "listing", << >>, Listing(tpls))
    ELSE IF Truthy(args.create_template) /\ CategoryOf(args.template_category) # << >>
    THEN LET s == SaveTemplate(tpls, d,
                    TemplateConfig([name |-> args.create_template,
                                    category |-> CategoryOf(args.template_category)[1],
                                    system_prompt |-> args.system_prompt,
                                    instruction |-> args.instruction,
                                    temperature |-> args.temperature,
                                    description |-> args.description]), fault)
         IN Handled(s.templates, s.disk, "created", << >>, << >>)
    ELSE Handled(tpls, d, "none", << >>, << >>)

HandleTemplateManagement(tpls, d, args, fault) ==
    IF args.list_templates THEN Handled(tpls, d, "listing", << >>, Listing(tpls))
    ELSE IF Truthy(args.create_template)
    THEN IF CategoryOf(args.template_category) = << >>
         THEN Handled(tpls, d, "error", << >>, << >>)
         ELSE LET template == TemplateConfig(
                      [name |-> args.create_template,
                       category |-> CategoryOf(args.template_category)[1],
                       system_prompt |-> args.system_prompt,
                       instruction |-> args.instruction,
                       temperature |-> args.temperature,
                       description |-> args.description])
                  v == ValidateTemplate(template)
                  s == SaveTemplate(tpls, d, template, fault)
              IN IF v.raised THEN Handled(tpls, d, "error", << >>, << >>)
                 ELSE IF v.errors # << >> THEN Handled(tpls, d, "errors", v.errors, << >>)
                 ELSE IF s.raised THEN Handled(tpls, s.disk, "error", << >>, << >>)
                 ELSE Handled(s.templates, s.disk, "created", << >>, << >>)
    ELSE Handled(tpls, d, "none", << >>, << >>)

-----------------------------------------------------------------------------
(* Inputs of the store's operations *)

qa == <<"q", "a">>
absolute == <<"/", "x">>
parent == <<".", ".", "/", "u">>
nested == <<"s", "/", "x">>

SaveNames == {summary, qa, absolute, parent, nested}

Variant1(name) ==
    TemplateConfig([name |-> name, category |-> "CUSTOM",
                    system_prompt |-> <<"P1">>, instruction |-> <<"I1">>,
                    temperature |-> F(5)])

Variant2(name) ==
    TemplateConfig([name |-> name, category |-> "BUSINESS",
                    system_prompt |-> <<"P2">>, instruction |-> <<"I2">>,
                    temperature |-> F(8),
                    focus_topics |-> << <<"budget">>, <<"risk">> >>,
                    output_format |-> <<"FMT">>,
                    description |-> <<"D2">>,
                    version |-> <<"2.0">>])

SaveInputs == {Variant1(n) : n \in SaveNames} \cup {Variant2(n) : n \in SaveNames}

\* The parsed command line, as far as handle_template_management reads it.
\* A flag that was not given is None; --template-category is one of the
\* enumeration's values when given.  BaseArgs creates a valid template; the
\* other inputs change one flag of it, or several, or ask for the listing.
BaseArgs ==
    [list_templates |-> FALSE,
     create_template |-> qa,
     template_category |-> "business",
     system_prompt |-> <<"P3">>,
     instruction |-> <<"I3">>,
     temperature |-> F(4),
     description |-> <<"D3">>]

ManageArgs ==
    {BaseArgs,
     [BaseArgs EXCEPT !.list_templates = TRUE],
     [BaseArgs EXCEPT !.create_template = None],
     [BaseArgs EXCEPT !.create_template = summary, !.description = None],
     [BaseArgs EXCEPT !.create_template = absolute],
     [BaseArgs EXCEPT !.template_category = "<None>"],
     [BaseArgs EXCEPT !.system_prompt = None],
     [BaseArgs EXCEPT !.instruction = << >>],
     [BaseArgs EXCEPT !.temperature = F(12)],
     [BaseArgs EXCEPT !.temperature = F(-1)],
     [BaseArgs EXCEPT !.temperature = NaN],
     [BaseArgs EXCEPT !.temperature = NoneF],
     [BaseArgs EXCEPT !.create_template = absolute, !.system_prompt = None,
                      !.temperature = F(12)]}

-----------------------------------------------------------------------------
(* The store: one storage location, one live TemplateManager on it *)

NoOp == [op |-> "none"]

\* Construction: TemplateManager() on the empty storage location.
Init ==
    /\ disk = << >>
    /\ templates = NewTemplateManager(<< >>, << >>)
    /\ saved = << >>
    /\ last = NoOp
    /\ ops = 0

\* A new TemplateManager on the same storage location replaces the live one.
DoInit ==
    /\ ops < MaxOps
    /\ \E order \in Orderings(Glob(disk)) :
          templates' = NewTemplateManager(disk, order)
    /\ saved' = << >>
    /\ last' = [op |-> "init"]
    /\ ops' = ops + 1
    /\ UNCHANGED disk

\* template_manager.save_template(t), called directly.
DoSave ==
    /\ ops < MaxOps
    /\ \E t \in SaveInputs, fault \in Faults :
          LET s == SaveTemplate(templates, disk, t, fault)
          IN /\ templates' = s.templates
             /\ disk' = s.disk
             /\ saved' = IF s.raised THEN saved ELSE (t.name :> t) @@ saved
             /\ last' = [op |-> "save", template |-> t, fault |-> fault,
                         raised |-> s.raised,
                         replaced |-> ~s.raised /\ GetTemplate(templates, t.name) # << >>
                                        /\ GetTemplate(templates, t.name) # <<t>>]
    /\ ops' = ops + 1

\* handle_template_management(template_manager, args)
Manage(args, fault) ==
    /\ ops < MaxOps
    /\ LET h == HandleTemplateManagement(templates, disk, args, fault)
       IN /\ templates' = h.templates
          /\ disk' = h.disk
          /\ saved' = IF h.printed = "created"
                      THEN (args.create_template :>
                              GetTemplate(h.templates, args.create_template)[1]) @@ saved
                      ELSE saved
          /\ last' = [op |-> "manage", args |-> args, handled |-> h.handled,
                      printed |-> h.printed, errors |-> h.errors, listing |-> h.listing]
    /\ ops' = ops + 1

DoManage == \E args \in ManageArgs, fault \in Faults : Manage(args, fault)

Next == DoInit \/ DoSave \/ DoManage

Spec == Init /\ [][Next]_vars

-----------------------------------------------------------------------------
(* Properties of the store *)

\* Every store that a new TemplateManager on the storage location can be.
Reloaded == {NewTemplateManager(disk, order) : order \in Orderings(Glob(disk))}

\* C2: after save_template(r) succeeds, get_template(r.name) returns a
\* record equal to r in the live store and in every store newly initialized
\* on the same storage location.
C2_SaveThenGetRoundTrip ==
    (last.op = "save" /\ ~last.raised) =>
        /\ GetTemplate(templates, last.template.name) = <<last.template>>
        /\ \A store \in Reloaded :
              GetTemplate(store, last.template.name) = <<last.template>>

\* The round trip of C2 for the names whose file lies directly inside the
\* storage directory.
SaveThenGetRoundTripInsideDirectory ==
    (last.op = "save" /\ ~last.raised /\ ~HasSeparator(last.template.name)) =>
        /\ GetTemplate(templates, last.template.name) = <<last.template>>
        /\ \A store \in Reloaded :
              GetTemplate(store, last.template.name) = <<last.template>>

\* C3: after any sequence of saves, get_template(name) returns exactly the
\* record of the last save with that name (no field of an earlier record is
\* kept), and the mapping holds one entry per name.
C3_LastSaveWins ==
    /\ \A n \in DOMAIN saved : GetTemplate(templates, n) = <<saved[n]>>
    /\ \A i, j \in 1..Len(templates) :
          i # j => templates[i].name # templates[j].name

\* A successful save has replaced a different record registered under the
\* same name.
C3_Witness ==
    /\ last.op = "save"
    /\ last.replaced
    /\ GetTemplate(templates, last.template.name) = <<last.template>>

\* The workflow was asked to create a template and its validation reported a
\* rule violation, or the construction or the validation raised.
Rejected(args) ==
    /\ ~args.list_templates
    /\ Truthy(args.create_template)
    /\ \/ CategoryOf(args.template_category) = << >>
       \/ LET v == ValidateTemplate(
                      TemplateConfig([name |-> args.create_template,
                                      category |-> CategoryOf(args.template_category)[1],
                                      system_prompt |-> args.system_prompt,
                                      instruction |-> args.instruction,
                                      temperature |-> args.temperature,
                                      description |-> args.description]))
          IN v.raised \/ v.errors # << >>

WellFormedRecord(content) ==
    /\ content # << >>
    /\ DOMAIN content[1] = RequiredFields \cup OptionalFields
    /\ content[1].category \in {"analysis", "technical", "business", "custom"}

\* The template t holds what the persisted object d holds, field by field.
SameAsPersisted(t, d) ==
    /\ t.name = d.name
    /\ CategoryValue(t.category) = d.category
    /\ t.system_prompt = d.system_prompt
    /\ t.instruction = d.instruction
    /\ t.temperature = d.temperature
    /\ t.focus_topics = d.focus_topics
    /\ t.output_format = d.output_format
    /\ t.description = d.description
    /\ t.version = d.version

BuiltinNames == {default_templates[i].name : i \in 1..Len(default_templates)}

\* C10: right after initialization, a name defined both as a built-in and as
\* a well-formed persisted record resolves to the persisted record.
C10_PersistedOverridesBuiltin ==
    last.op = "init" =>
        \A p \in Glob(disk) :
            (WellFormedRecord(disk[p]) /\ disk[p][1].name \in BuiltinNames) =>
                /\ GetTemplate(templates, disk[p][1].name) # << >>
                /\ SameAsPersisted(GetTemplate(templates, disk[p][1].name)[1], disk[p][1])

\* A store was initialized on a location holding a well-formed record named
\* like a built-in and different from it.
C10_Witness ==
    /\ last.op = "init"
    /\ \E p \in Glob(disk) :
          /\ WellFormedRecord(disk[p])
          /\ disk[p][1].name = summary
          /\ disk[p][1].system_prompt # default_templates[1].system_prompt

-----------------------------------------------------------------------------
(* Initialization on a storage location that already holds files *)

\* The file templates_dir / f"{n}.json" holding content.
File(n, content) == [path |-> TemplatePath(n), content |-> content]

FullObject(n, category) ==
    [ToDict(Variant2(n)) EXCEPT !.category = category]

\* The files a storage location may hold: records the program saved, a
\* record with the required fields only, and files that are not a template
\* record (no JSON at all, no category, an unknown category, a required
\* field missing, a field TemplateConfig does not have).
StoredFiles ==
    {File(qa, <<ToDict(Variant2(qa))>>),
     File(summary, <<ToDict(Variant1(summary))>>),
     File(<<"m">>, << [name |-> <<"m">>, category |-> "custom",
                       system_prompt |-> <<"P4">>, instruction |-> <<"I4">>,
                       temperature |-> F(6)] >>),
     File(<<"b">>, << >>),
     File(<<"n">>, << [name |-> <<"n">>, system_prompt |-> <<"P5">>,
                       instruction |-> <<"I5">>, temperature |-> F(5)] >>),
     File(<<"c">>, << FullObject(<<"c">>, "music") >>),
     File(<<"i">>, << [name |-> <<"i">>, category |-> "analysis",
                       system_prompt |-> <<"P6">>, temperature |-> F(5)] >>),
     File(<<"e">>, << [k \in RequiredFields \cup OptionalFields \cup {"author"} |->
                         IF k = "author" THEN <<"me">>
                         ELSE FullObject(<<"e">>, "business")[k]] >>)}

\* Bound on the number of files of a storage location.
MaxFiles == 3

StorageLocations ==
    {[p \in {f.path : f \in S} |-> (CHOOSE f \in S : f.path = p).content] :
        S \in {T \in SUBSET StoredFiles : Cardinality(T) <= MaxFiles}}

\* Construction: TemplateManager() on a storage location holding files.
InitLoad ==
    /\ disk \in StorageLocations
    /\ \E order \in Orderings(Glob(disk)) :
          templates = NewTemplateManager(disk, order)
    /\ saved = << >>
    /\ last = [op |-> "init"]
    /\ ops = 0

NextLoad == DoInit

SpecLoad == InitLoad /\ [][NextLoad]_vars

\* A persisted record is malformed when its content does not parse, a
\* required field is missing, or its category is not recognized.
Malformed(content) ==
    \/ content = << >>
    \/ ~(RequiredFields \subseteq DOMAIN content[1])
    \/ content[1].category \notin {"analysis", "technical", "business", "custom"}

\* A well-formed record: not malformed, and no field a template does not have.
Loadable(content) ==
    /\ ~Malformed(content)
    /\ DOMAIN content[1] \subseteq RequiredFields \cup OptionalFields

\* The template t holds every field the persisted object d gives.
Persisted(t, d) ==
    \A k \in DOMAIN d :
        IF k = "category" THEN CategoryValue(t.category) = d.category
        ELSE t[k] = d[k]

RegisteredNames == {templates[i].name : i \in 1..Len(templates)}

\* C11: initialization completes whatever the storage location holds: a
\* malformed record is skipped and adds no entry, every well-formed record
\* is loaded, so the registered names are the built-in names and the names
\* of the well-formed records; one well-formed record (of a new name) and
\* one malformed record give the defaults plus one entry.
C11_MalformedRecordsSkipped ==
    last.op = "init" =>
        LET good == {p \in Glob(disk) : Loadable(disk[p])}
            bad == {p \in Glob(disk) : Malformed(disk[p])}
        IN /\ RegisteredNames = BuiltinNames \cup {disk[p][1].name : p \in good}
           /\ \A p \in good :
                 /\ GetTemplate(templates, disk[p][1].name) # << >>
                 /\ Persisted(GetTemplate(templates, disk[p][1].name)[1], disk[p][1])
           /\ Len(templates) = Cardinality(RegisteredNames)
           /\ (Cardinality(good) = 1 /\ Cardinality(bad) = 1 /\ Glob(disk) = good \cup bad
               /\ \A p \in good : disk[p][1].name \notin BuiltinNames)
                 => Len(templates) = Len(default_templates) + 1

\* A store was initialized on a location holding one well-formed and one
\* malformed record, and holds the defaults and the well-formed record.
C11_Witness ==
    /\ last.op = "init"
    /\ ops > 0
    /\ Cardinality(Glob(disk)) = 2
    /\ \E p, q \in Glob(disk) :
          /\ Loadable(disk[p]) /\ disk[p][1].name \notin BuiltinNames
          /\ Malformed(disk[q])
          /\ GetTemplate(templates, disk[p][1].name) # << >>
    /\ Len(templates) = Len(default_templates) + 1

-----------------------------------------------------------------------------
(* validate_template on its own: the records it can be handed *)

ValidateNames ==
    {None, << >>, qa, <<"a", "1">>, <<"4", "2">>, <<"a", "_">>, <<"a", " ">>, absolute}

ValidateInputs ==
    {TemplateConfig([name |-> n, category |-> "CUSTOM", system_prompt |-> sp,
                     instruction |-> ins, temperature |-> temp]) :
        n \in ValidateNames,
        sp \in {None, << >>, <<"P1">>},
        ins \in {None, << >>, <<"I1">>},
        temp \in {F(-1), F(0), F(5), F(10), F(11), NaN, NoneF}}

InitValidate ==
    /\ disk = << >>
    /\ templates = NewTemplateManager(<< >>, << >>)
    /\ saved = << >>
    /\ ops = 0
    /\ \E t \in ValidateInputs : last = [op |-> "input", template |-> t]

\* template_manager.validate_template(template)
DoValidate ==
    /\ last.op = "input"
    /\ LET v == ValidateTemplate(last.template)
       IN last' = [op |-> "validate", template |-> last.template,
                   raised |-> v.raised, errors |-> v.errors]
    /\ UNCHANGED <<templates, disk, saved, ops>>

NextValidate == DoValidate

SpecValidate == InitValidate /\ [][NextValidate]_vars

\* The rules of a valid template: the name is non-empty and alphanumeric, the
\* temperature is a number of the closed interval [0, 1], the system prompt
\* and the instruction are non-empty.
NameRule(t) ==
    /\ t.name # None /\ t.name # << >>
    /\ \A i \in 1..Len(t.name) : t.name[i] \in Letters \cup Digits
TemperatureRule(t) ==
    /\ t.temperature.kind = "num"
    /\ 0 <= t.temperature.tenths /\ t.temperature.tenths <= 10
RequiredRule(t) ==
    /\ t.system_prompt # None /\ t.system_prompt # << >>
    /\ t.instruction # None /\ t.instruction # << >>

\* C1: validate_template(T) returns an empty error list if and only if T
\* satisfies the three rules.
C1_NoErrorsIffValid ==
    last.op = "validate" =>
        ((~last.raised /\ last.errors = << >>)
            <=> (NameRule(last.template) /\ TemperatureRule(last.template)
                    /\ RequiredRule(last.template)))

\* The statement of C1 for every temperature but NaN.
NoErrorsIffValidUnlessNaN ==
    (last.op = "validate" /\ last.template.temperature # NaN) =>
        ((~last.raised /\ last.errors = << >>)
            <=> (NameRule(last.template) /\ TemperatureRule(last.template)
                    /\ RequiredRule(last.template)))

-----------------------------------------------------------------------------
(* gpt_analyzer.py: TranscriptionAnalyzer (the prompt composer) *)

action_items == <<"a", "c", "t", "i", "o", "n", "_", "i", "t", "e", "m", "s">>
sentiment == <<"s", "e", "n", "t", "i", "m", "e", "n", "t">>
default == <<"d", "e", "f", "a", "u", "l", "t">>

\* self.templates of _initialize_templates: name -> dict.
AnalyzerTemplates ==
    (summary :>
        [system_prompt |-> <<"You are generating a transcript summary. Focus on extracting and organizing the main points while maintaining clarity and brevity.">>,
         instruction |-> <<"Create a concise summary of the main points discussed">>,
         temperature |-> F(3)])
    @@ (action_items :>
        [system_prompt |-> <<"You are an action item extractor. Your primary focus is identifying and clearly presenting all tasks, commitments, and follow-up items.">>,
         instruction |-> <<"Extract all action items, tasks, and commitments mentioned">>,
         focus_topics |-> << <<"tasks">>, <<"deadlines">>, <<"assignments">>, <<"commitments">> >>,
         temperature |-> F(1),
         output_format |-> <<"# Action Items Identified ...">>])
    @@ (sentiment :>
        [system_prompt |-> <<"You are a sentiment and tone analyzer. Focus on understanding and explaining the emotional undertones and attitudes expressed.">>,
         instruction |-> <<"Analyze the overall tone and sentiment of the discussion">>,
         focus_topics |-> << <<"emotions">>, <<"attitudes">>, <<"reactions">> >>,
         temperature |-> F(4)])
    @@ (qa :>
        [system_prompt |-> <<"You are a Q&A extractor. Your role is to identify and pair questions with their corresponding answers.">>,
         instruction |-> <<"Extract questions asked and their answers if provided">>,
         focus_topics |-> << <<"questions">>, <<"answers">>, <<"clarifications">> >>,
         temperature |-> F(2)])
    @@ (default :>
        [system_prompt |-> <<"You are a transcript analyzer. Provide comprehensive analysis while maintaining clarity and structure.">>,
         instruction |-> <<"Provide a detailed analysis of the transcription">>,
         temperature |-> F(7)])

\* TranscriptionAnalyzer.create_system_prompt: the parts are collected in
\* this order, each optional one only when its argument is truthy, and joined
\* by one space.
CreateSystemPrompt(base_prompt, instruction, focus_topics, exclude_topics, custom_instructions, output_format) ==
    LET p1 == <<base_prompt>>
        p2 == IF Truthy(instruction)
              THEN Append(p1, <<"Primary task: ">> \o instruction) ELSE p1
        p3 == IF TruthyList(focus_topics)
              THEN Append(p2, <<"Pay particular attention to these topics: ">>
                                 \o Join(focus_topics, <<", ">>))
              ELSE p2
        p4 == IF TruthyList(exclude_topics)
              THEN Append(p3, <<"Minimize discussion of these topics: ">>
                                 \o Join(exclude_topics, <<", ">>))
              ELSE p3
        p5 == IF Truthy(custom_instructions)
              THEN Append(p4, <<"Additional instructions: ">> \o custom_instructions)
              ELSE p4
        p6 == IF Truthy(output_format)
              THEN Append(p5, <<"Please format your response as follows: ">> \o output_format)
              ELSE p5
    IN Join(Append(p6, <<"Respond in Markdown format.">>), <<" ">>)

\* self.templates.get(template, self.templates["default"]).copy(), then
\* template_config.update(kwargs).
TemplateConfigWithoutUpdate(template, kwargs) ==
    IF template \in DOMAIN AnalyzerTemplates
    THEN AnalyzerTemplates[template] ELSE AnalyzerTemplates[default]

TemplateConfigFor(template, kwargs) ==
    kwargs @@ (IF template \in DOMAIN AnalyzerTemplates
               THEN AnalyzerTemplates[template] ELSE AnalyzerTemplates[default])

\* dict.get(key, fallback) of a dict held as a function.
Lookup(d, key, fallback) == IF key \in DOMAIN d THEN d[key] ELSE fallback

\* The messages of analyze_transcription_with_template.
ComposerMessagesContextLast(system_prompt, additional_context, transcription) ==
    LET m1 == << [role |-> "system", content |-> system_prompt] >>
        m2 == Append(m1, [role |-> "user",
                          content |-> << [type |-> "text",
                                          text |-> <<"The audio transcription is: ">>
                                                     \o transcription] >>])
    IN IF Truthy(additional_context)
       THEN Append(m2, [role |-> "system",
                        content |-> <<"Additional context: ">> \o additional_context])
       ELSE m2

ComposerMessages(system_prompt, additional_context, transcription) ==
    LET m1 == << [role |-> "system", content |-> system_prompt] >>
        m2 == IF Truthy(additional_context)
              THEN Append(m1, [role |-> "system",
                               content |-> <<"Additional context: ">> \o additional_context])
              ELSE m1
    IN Append(m2, [role |-> "user",
                   content |-> << [type |-> "text",
                                   text |-> <<"The audio transcription is: ">>
                                              \o transcription] >>])

\* self.templates of the analyzer after analyze_transcription_with_template:
\* the call works on template_config, a copy of the entry, so update(kwargs)
\* leaves the entry as it was.
AnalyzerTemplatesAfterNoCopy(r) ==
    LET name == IF r.template \in DOMAIN AnalyzerTemplates THEN r.template ELSE default
    IN [n \in DOMAIN AnalyzerTemplates |->
          IF n = name THEN r.kwargs @@ AnalyzerTemplates[n] ELSE AnalyzerTemplates[n]]

AnalyzerTemplatesAfter(r) == AnalyzerTemplates

\* analyze_transcription_with_template up to the completion call: the
\* arguments of self.client.chat.completions.create.
AnalyzeTranscriptionWithTemplate(r) ==
    LET template_config == TemplateConfigFor(r.template, r.kwargs)
        focus_topics == IF r.override_focus_topics # NoneList
                        THEN r.override_focus_topics
                        ELSE Lookup(template_config, "focus_topics", NoneList)
        system_prompt == CreateSystemPrompt(template_config.system_prompt,
                                            Lookup(template_config, "instruction", None),
                                            focus_topics,
                                            r.override_exclude_topics,
                                            r.custom_instructions,
                                            Lookup(template_config, "output_format", None))
    IN [raised |-> FALSE,
        notice |-> FALSE,
        store |-> AnalyzerTemplatesAfter(r),
        call |-> << [messages |-> ComposerMessages(system_prompt, r.additional_context,
                                                   r.transcription),
                     temperature |-> Lookup(template_config, "temperature", F(7)),
                     max_tokens |-> Lookup(r.kwargs, "max_tokens", 1500)] >>]

-----------------------------------------------------------------------------
(* template_manager.py: TranscriptionAnalyzer (the store-backed analyzer) *)

\* analyze_transcription up to the completion call.  A name that is not
\* registered prints the notice and falls back to get_template("default");
\* when that is absent too, ValueError is raised (outside the try).  store is
\* the manager's mapping after the call: the call only reads it, through
\* get_template.
AnalyzeTranscription(tpls, r) ==
    LET found == GetTemplate(tpls, r.template_name)
        template == IF found # << >> THEN found ELSE GetTemplate(tpls, default)
        m1 == << [role |-> "system", content |-> template[1].system_prompt] >>
        m2 == IF Truthy(r.custom_instructions)
              THEN Append(m1, [role |-> "system",
                               content |-> <<"Additional instructions: ">>
                                              \o r.custom_instructions])
              ELSE m1
        m3 == Append(m2, [role |-> "user",
                          content |-> <<"The audio transcription is: ">> \o r.transcription])
    IN IF template = << >>
       THEN [raised |-> TRUE, notice |-> TRUE, store |-> tpls, call |-> << >>]
       ELSE [raised |-> FALSE, notice |-> found = << >>, store |-> tpls,
             call |-> << [messages |-> m3,
                          temperature |-> template[1].temperature,
                          max_tokens |-> Lookup(r.kwargs, "max_tokens", 1500)] >>]

-----------------------------------------------------------------------------
(* Analysis calls.  A call is three steps: the analyzer composes and sends   *)
(* (or raises), the completion call answers or fails, the caller takes the   *)
(* result.  last holds the call in progress.                                 *)

\* What the callers pass: main.py of transcribe_to_gpt passes the overrides
\* as named arguments of analyze_transcription_with_template and the
\* temperature in kwargs.
NoKwargs == << >>
ComposerRequests ==
    [transcription : {<<"Did we ship? Yes, Tuesday.">>},
     template : {summary, action_items, qa, <<"z", "z">>, None},
     custom_instructions : {None, <<"Highlight key decisions">>},
     additional_context : {None, << >>, <<"Weekly sync">>},
     override_focus_topics : {NoneList, << >>, << <<"budget">>, <<"risk">> >>},
     override_exclude_topics : {NoneList, << <<"gossip">> >>},
     kwargs : {NoKwargs,
               "temperature" :> F(9),
               "max_tokens" :> 100,
               ("temperature" :> F(0)) @@ ("max_tokens" :> 100)}]

\* main.py passes every override of analyze_transcription in kwargs, except
\* custom_instructions.
StoreRequests ==
    [transcription : {<<"Did we ship? Yes, Tuesday.">>},
     template_name : {summary, technical_specs, qa, default, <<"z", "z">>, None},
     custom_instructions : {None, << >>, <<"Highlight key decisions">>},
     kwargs : {NoKwargs,
               "temperature" :> F(9),
               "max_tokens" :> 100,
               "override_focus_topics" :> << <<"budget">>, <<"risk">> >>,
               ("override_exclude_topics" :> << <<"gossip">> >>)
                  @@ ("additional_context" :> <<"Weekly sync">>),
               ("override_focus_topics" :> << <<"budget">>, <<"risk">> >>)
                  @@ ("additional_context" :> <<"Weekly sync">>)
                  @@ ("temperature" :> F(9))}]

\* The templates saved into the store before an analysis.
AnalysisSaveInputs ==
    {Variant2(qa),
     Variant1(qa),
     TemplateConfig([name |-> default, category |-> "ANALYSIS",
                     system_prompt |-> <<"P0">>, instruction |-> <<"I0">>,
                     temperature |-> F(7),
                     focus_topics |-> << <<"morale">> >>])}

\* What the completion call answers.
Replies == {<<"## Analysis">>}

Idle == last.op \in {"none", "init", "save", "manage"}

\* template_manager.save_template(t) before an analysis.
DoSaveCustom ==
    /\ Idle
    /\ ops < MaxOps
    /\ \E t \in AnalysisSaveInputs :
          LET s == SaveTemplate(templates, disk, t, "ok")
          IN /\ templates' = s.templates
             /\ disk' = s.disk
             /\ saved' = (t.name :> t) @@ saved
             /\ last' = [op |-> "save", template |-> t, fault |-> "ok",
                         raised |-> s.raised,
                         replaced |-> GetTemplate(templates, t.name) # << >>
                                        /\ GetTemplate(templates, t.name) # <<t>>]
    /\ ops' = ops + 1

Started(analyzer, r, a) ==
    [op |-> "analysis", analyzer |-> analyzer, request |-> r,
     status |-> IF a.raised THEN "raised" ELSE "awaiting",
     notice |-> a.notice, store |-> a.store, call |-> a.call, result |-> << >>]

\* analyzer.analyze_transcription_with_template(**r), to the completion call
DoAnalyzeWithTemplate ==
    /\ Idle
    /\ \E r \in ComposerRequests :
          last' = Started("composer", r, AnalyzeTranscriptionWithTemplate(r))
    /\ UNCHANGED <<templates, disk, saved, ops>>

\* analyzer.analyze_transcription(**r), to the completion call
DoAnalyze ==
    /\ Idle
    /\ \E r \in StoreRequests :
          LET a == AnalyzeTranscription(templates, r)
          IN /\ last' = Started("store", r, a)
             /\ templates' = a.store
    /\ UNCHANGED <<disk, saved, ops>>

\* The completion call answers and the analyzer returns the content, or it
\* fails and the analyzer prints the error and returns None.
DoComplete ==
    /\ last.op = "analysis"
    /\ last.status = "awaiting"
    /\ \/ \E reply \in Replies :
             last' = [last EXCEPT !.status = "returned", !.result = <<reply>>]
       \/ last' = [last EXCEPT !.status = "returned", !.result = << >>]
    /\ UNCHANGED <<templates, disk, saved, ops>>

\* The caller has the result (or the exception).
DoReturn ==
    /\ last.op = "analysis"
    /\ last.status \in {"returned", "raised"}
    /\ last' = NoOp
    /\ UNCHANGED <<templates, disk, saved, ops>>

NextAnalyze == DoSaveCustom \/ DoAnalyzeWithTemplate \/ DoAnalyze \/ DoComplete \/ DoReturn

SpecAnalyze == Init /\ [][NextAnalyze]_vars

-----------------------------------------------------------------------------
(* Properties of the analysis calls.  The operators below read the request  *)
(* and the completion call recorded in last.                                 *)

Analyzing == last.op = "analysis"
ByComposer == last.op = "analysis" /\ last.analyzer = "composer"
ByStore == last.op = "analysis" /\ last.analyzer = "store"
Sent == last.op = "analysis" /\ last.call # << >>

\* The template the request names, as registered: the analyzer's own table
\* for the composer, the Template Store for the store-backed analyzer; an
\* unregistered name stands for "default".  << >> when neither is registered.
Resolved ==
    IF last.analyzer = "composer"
    THEN LET c == IF last.request.template \in DOMAIN AnalyzerTemplates
                  THEN AnalyzerTemplates[last.request.template]
                  ELSE AnalyzerTemplates[default]
         IN << [system_prompt |-> c.system_prompt,
                instruction |-> c.instruction,
                temperature |-> c.temperature,
                focus_topics |-> IF "focus_topics" \in DOMAIN c THEN c.focus_topics ELSE NoneList,
                output_format |-> IF "output_format" \in DOMAIN c THEN c.output_format ELSE None] >>
    ELSE LET found == IF \E i \in 1..Len(templates) : templates[i].name = last.request.template_name
                      THEN last.request.template_name ELSE default
         IN IF \E i \in 1..Len(templates) : templates[i].name = found
            THEN LET t == templates[CHOOSE i \in 1..Len(templates) : templates[i].name = found]
                 IN << [system_prompt |-> t.system_prompt,
                        instruction |-> t.instruction,
                        temperature |-> t.temperature,
                        focus_topics |-> t.focus_topics,
                        output_format |-> t.output_format] >>
            ELSE << >>

\* The run-time overrides of the request, None or NoneList when not given.
Named(key, absent) ==
    IF key \in DOMAIN last.request.kwargs THEN last.request.kwargs[key] ELSE absent
FocusOverride ==
    IF last.analyzer = "composer" THEN last.request.override_focus_topics
    ELSE Named("override_focus_topics", NoneList)
ExcludeOverride ==
    IF last.analyzer = "composer" THEN last.request.override_exclude_topics
    ELSE Named("override_exclude_topics", NoneList)
Context ==
    IF last.analyzer = "composer" THEN last.request.additional_context
    ELSE Named("additional_context", None)
TemperatureGiven == "temperature" \in DOMAIN last.request.kwargs
NoOverrides ==
    /\ FocusOverride = NoneList /\ ExcludeOverride = NoneList
    /\ Context = None /\ last.request.custom_instructions = None
    /\ last.request.kwargs = NoKwargs

Messages == last.call[1].messages
SystemContent == Messages[1].content
\* The text of the user message: the composer sends it as one text part.
UserText(m) == IF last.analyzer = "composer" THEN m.content[1].text ELSE m.content

FocusPrefix == "Pay particular attention to these topics: "
ExcludePrefix == "Minimize discussion of these topics: "
FormatPrefix == "Please format your response as follows: "
Directive == "Respond in Markdown format."
UserPrefix == "The audio transcription is: "

RECURSIVE CommaSeparated(_)
CommaSeparated(topics) ==
    IF Len(topics) = 1 THEN topics[1]
    ELSE CommaSeparated(SubSeq(topics, 1, Len(topics) - 1)) \o <<", ">> \o topics[Len(topics)]

Present(s) == s # None /\ s # << >>
PresentList(l) == l # NoneList /\ l # << >>
Clause(present, text) == IF present THEN <<" ">> \o text ELSE << >>

\* The prompt of the specification's steps 1 to 7, for the template t.
ComposedPrompt(t, focus, exclude, custom) ==
    t.system_prompt
    \o Clause(Present(t.instruction), <<"Primary task: ">> \o t.instruction)
    \o Clause(PresentList(focus), <<FocusPrefix>> \o CommaSeparated(focus))
    \o Clause(PresentList(exclude), <<ExcludePrefix>> \o CommaSeparated(exclude))
    \o Clause(Present(custom), <<"Additional instructions: ">> \o custom)
    \o Clause(Present(t.output_format), <<FormatPrefix>> \o t.output_format)
    \o <<" ", Directive>>

EffectiveFocus == IF FocusOverride # NoneList THEN FocusOverride ELSE Resolved[1].focus_topics

Contains(text, part) ==
    \E i \in 1..(Len(text) - Len(part) + 1) : SubSeq(text, i, i + Len(part) - 1) = part

\* C5: a request for a name that is not registered in the Template Store
\* does not fail: the notice is printed, the template named "default" is
\* used and the completion call is made.
C5_UnknownNameUsesDefault ==
    (ByStore /\ ~(\E i \in 1..Len(templates) :
                    templates[i].name = last.request.template_name)) =>
        /\ last.status # "raised"
        /\ last.notice
        /\ last.call # << >>
        /\ SystemContent = Resolved[1].system_prompt

\* C6: the system prompt sent is composed in the fixed order, each optional
\* clause present iff its input is; with no overrides and a template without
\* focus_topics and output_format it is exactly base prompt, instruction
\* line and trailing directive.
C6_ComposedInFixedOrder ==
    Sent =>
        /\ SystemContent = ComposedPrompt(Resolved[1], EffectiveFocus, ExcludeOverride,
                                          last.request.custom_instructions)
        /\ (NoOverrides /\ Resolved[1].focus_topics = NoneList
                /\ Resolved[1].output_format = None) =>
              SystemContent = Resolved[1].system_prompt
                                \o <<" ", "Primary task: ">> \o Resolved[1].instruction
                                \o <<" ", Directive>>

\* The statement of C6 for analyze_transcription_with_template alone.
ComposedInFixedOrderByComposer ==
    (Sent /\ ByComposer) =>
        /\ SystemContent = ComposedPrompt(Resolved[1], EffectiveFocus, ExcludeOverride,
                                          last.request.custom_instructions)
        /\ (NoOverrides /\ Resolved[1].focus_topics = NoneList
                /\ Resolved[1].output_format = None) =>
              SystemContent = Resolved[1].system_prompt
                                \o <<" ", "Primary task: ">> \o Resolved[1].instruction
                                \o <<" ", Directive>>

\* The focus clause of the prompt lists exactly these topics (no clause for
\* an empty list).
FocusClauseLists(topics) ==
    IF PresentList(topics)
    THEN Contains(SystemContent, <<FocusPrefix>> \o CommaSeparated(topics) \o <<" ">>)
    ELSE ~Contains(SystemContent, <<FocusPrefix>>)

\* C7: with override_focus_topics given, the focus clause lists the override
\* topics and none of the template's own; without it, the template's own.
C7_FocusOverrideReplaces ==
    Sent =>
        IF FocusOverride # NoneList
        THEN /\ FocusClauseLists(FocusOverride)
             /\ Resolved[1].focus_topics # NoneList =>
                   \A k \in 1..Len(Resolved[1].focus_topics) :
                       (\A j \in 1..Len(FocusOverride) :
                            FocusOverride[j] # Resolved[1].focus_topics[k])
                         => ~Contains(SystemContent, Resolved[1].focus_topics[k])
        ELSE FocusClauseLists(Resolved[1].focus_topics)

\* The statement of C7 for analyze_transcription_with_template alone.
FocusOverrideReplacesByComposer ==
    (Sent /\ ByComposer) =>
        IF FocusOverride # NoneList
        THEN /\ FocusClauseLists(FocusOverride)
             /\ Resolved[1].focus_topics # NoneList =>
                   \A k \in 1..Len(Resolved[1].focus_topics) :
                       (\A j \in 1..Len(FocusOverride) :
                            FocusOverride[j] # Resolved[1].focus_topics[k])
                         => ~Contains(SystemContent, Resolved[1].focus_topics[k])
        ELSE FocusClauseLists(Resolved[1].focus_topics)

C9_TemplateTemperatureSent ==
    Sent => last.call[1].temperature = Resolved[1].temperature

\* C9, amended: without a temperature override the temperature sent is the
\* resolved template's; with one, analyze_transcription still sends the
\* template's and analyze_transcription_with_template sends the override.
C9_TemperatureSent ==
    Sent =>
        last.call[1].temperature =
            IF last.analyzer = "composer" /\ TemperatureGiven
            THEN last.request.kwargs["temperature"]
            ELSE Resolved[1].temperature

\* The composer was given a temperature override that differs from the
\* template's temperature and has sent the override.
C9_Witness ==
    /\ Sent /\ ByComposer
    /\ TemperatureGiven
    /\ last.request.kwargs["temperature"] # Resolved[1].temperature
    /\ last.call[1].temperature = last.request.kwargs["temperature"]

\* The store-backed analyzer was given a temperature override and has sent
\* the template's temperature.
StoreIgnoresTemperatureOverride ==
    /\ Sent /\ ByStore
    /\ TemperatureGiven
    /\ last.request.kwargs["temperature"] # Resolved[1].temperature
    /\ last.call[1].temperature = Resolved[1].temperature

-----------------------------------------------------------------------------
(* The pipeline: main of main.py (store-backed analyzer) and main of        *)
(* transcribe_to_gpt/main.py (prompt composer).  One invocation is up to     *)
(* three steps: main runs to the transcription call, the transcription call *)
(* answers or fails and main runs to the completion call, the completion    *)
(* call answers or fails and main prints.  last holds the invocation.        *)

\* What a remote call does: it answers with a text, or it fails; "unopened"
\* is open(file_path, "rb") failing before the transcription call is made.
Answered(text) == [kind |-> "answered", text |-> text]
Failed == [kind |-> "failed", text |-> << >>]
Unopened == [kind |-> "unopened", text |-> << >>]

\* WhisperTranscriber.transcribe_audio, given what the call did: the text,
\* or None after printing the error.
TranscribeAudioNoCatch(outcome) ==
    IF outcome.kind = "answered"
    THEN [raised |-> FALSE, result |-> <<outcome.text>>, printed |-> << >>]
    ELSE [raised |-> TRUE, result |-> << >>, printed |-> << >>]

TranscribeAudio(outcome) ==
    IF outcome.kind = "answered"
    THEN [raised |-> FALSE, result |-> <<outcome.text>>, printed |-> << >>]
    ELSE [raised |-> FALSE, result |-> << >>, printed |-> <<"Error during transcription">>]

\* The end of analyze_transcription_with_template: the content of the first
\* choice, or None after printing the error.
AnalyzeTranscriptionWithTemplateReturn(outcome) ==
    IF outcome.kind = "answered"
    THEN [raised |-> FALSE, result |-> <<outcome.text>>, printed |-> << >>]
    ELSE [raised |-> FALSE, result |-> << >>, printed |-> <<"Error during GPT analysis">>]

\* The end of analyze_transcription (template_manager.py).
AnalyzeTranscriptionReturn(outcome) ==
    IF outcome.kind = "answered"
    THEN [raised |-> FALSE, result |-> <<outcome.text>>, printed |-> << >>]
    ELSE [raised |-> FALSE, result |-> << >>, printed |-> <<"Error during analysis">>]

\* analysis_params of transcribe_to_gpt/main.py: an option is passed only
\* when it is truthy (the temperature: when it is not None).
ComposerParams(args, transcription) ==
    [transcription |-> transcription,
     template |-> args.template,
     custom_instructions |-> IF Truthy(args.instruction) THEN args.instruction ELSE None,
     additional_context |-> IF Truthy(args.context) THEN args.context ELSE None,
     override_focus_topics |-> IF TruthyList(args.focus_topics)
                               THEN args.focus_topics ELSE NoneList,
     override_exclude_topics |-> IF TruthyList(args.exclude_topics)
                                 THEN args.exclude_topics ELSE NoneList,
     kwargs |-> IF args.temperature # NoneF
                THEN "temperature" :> args.temperature ELSE NoKwargs]

\* analysis_params of main.py.
StoreParams(args, transcription) ==
    [transcription |-> transcription,
     template_name |-> args.template,
     custom_instructions |-> IF Truthy(args.instruction) THEN args.instruction ELSE None,
     kwargs |->
        (IF TruthyList(args.focus_topics)
         THEN "override_focus_topics" :> args.focus_topics ELSE NoKwargs)
        @@ (IF TruthyList(args.exclude_topics)
            THEN "override_exclude_topics" :> args.exclude_topics ELSE NoKwargs)
        @@ (IF Truthy(args.context)
            THEN "additional_context" :> args.context ELSE NoKwargs)
        @@ (IF args.temperature # NoneF
            THEN "temperature" :> args.temperature ELSE NoKwargs)]

\* What main prints and does once transcribe_audio has returned t: it stops
\* when the transcription is None or empty, otherwise it builds the
\* parameters and calls the analyzer, which sends the completion call or
\* raises (ValueError, caught by main).
Continue(pc, printed, request, call) ==
    [pc |-> pc, printed |-> printed, request |-> request, call |-> call]

MainAnalyze(main, args, tpls, transcription) ==
    LET r == IF main = "composer" THEN ComposerParams(args, transcription)
             ELSE StoreParams(args, transcription)
        a == IF main = "composer" THEN AnalyzeTranscriptionWithTemplate(r)
             ELSE AnalyzeTranscription(tpls, r)
        lines == <<"Transcription complete!", "Analyzing transcription">>
    IN IF a.raised
       THEN Continue("done", lines \o <<"Configuration error">>, <<r>>, << >>)
       ELSE Continue("completing", lines, <<r>>, a.call)

MainAfterTranscriptionNoCheck(main, args, tpls, t) ==
    IF t.raised
    THEN Continue("done", <<"An unexpected error occurred">>, << >>, << >>)
    ELSE MainAnalyze(main, args, tpls, IF t.result = << >> THEN None ELSE t.result[1])

MainAfterTranscription(main, args, tpls, t) ==
    IF t.raised
    THEN Continue("done", <<"An unexpected error occurred">>, << >>, << >>)
    ELSE IF t.result = << >> \/ ~Truthy(t.result[1])
    THEN Continue("done", <<"Failed to transcribe audio.">>, << >>, << >>)
    ELSE MainAnalyze(main, args, tpls, t.result[1])

\* What main prints once the analyzer has returned g.
MainAfterAnalysis(g) ==
    IF g.raised
    THEN [printed |-> <<"An unexpected error occurred">>, results |-> << >>]
    ELSE IF g.result = << >> \/ ~Truthy(g.result[1])
    THEN [printed |-> <<"Failed to get analysis response.">>, results |-> << >>]
    ELSE [printed |-> <<"Analysis Results">>, results |-> g.result]

\* get_config() returns the configuration or raises ValueError.
ConfigOutcomes == {"ok", "ValueError"}

Mains == {"store", "composer"}

\* The arguments of main.
BasePipelineArgs ==
    [audio_file_path |-> <<"a.mp3">>,
     template |-> summary,
     instruction |-> None,
     focus_topics |-> NoneList,
     exclude_topics |-> NoneList,
     context |-> None,
     temperature |-> NoneF]

PipelineArgs ==
    {BasePipelineArgs,
     [BasePipelineArgs EXCEPT !.audio_file_path = None],
     [BasePipelineArgs EXCEPT !.template = default],
     [BasePipelineArgs EXCEPT !.template = None],
     [BasePipelineArgs EXCEPT !.template = qa, !.instruction = <<"Highlight key decisions">>],
     [BasePipelineArgs EXCEPT !.focus_topics = << <<"budget">>, <<"risk">> >>,
                              !.exclude_topics = << <<"gossip">> >>],
     [BasePipelineArgs EXCEPT !.context = <<"Weekly sync">>, !.temperature = F(9)]}

Transcripts == {<< >>, <<"Did we ship? Yes, Tuesday.">>}
PipelineReplies == {<< >>, <<"## Analysis">>}

Invocation(main, args) ==
    [op |-> "pipeline", main |-> main, args |-> args, pc |-> "done",
     calls |-> << >>, transcription_call |-> << >>, transcribed |-> << >>,
     request |-> << >>, call |-> << >>,
     completion_call |-> << >>, analyzed |-> << >>,
     printed |-> << >>, results |-> << >>]

\* main(...) up to the transcription call.
DoMain ==
    /\ last.op = "none" \/ (last.op = "pipeline" /\ last.pc = "done")
    /\ ops < MaxOps
    /\ \E main \in Mains, args \in PipelineArgs, config \in ConfigOutcomes, opened \in BOOLEAN :
          LET i == Invocation(main, args)
              t == TranscribeAudio(Unopened)
              m == MainAfterTranscription(main, args, templates, t)
          IN last' =
               IF config = "ValueError"
               THEN [i EXCEPT !.printed = <<"Configuration error">>]
               ELSE IF main = "store" /\ ~Truthy(args.audio_file_path)
               THEN i
               ELSE IF ~opened \/ ~Truthy(args.audio_file_path)
               THEN [i EXCEPT !.transcribed = <<t>>,
                              !.printed = <<"Transcribing audio">> \o t.printed \o m.printed]
               ELSE [i EXCEPT !.pc = "transcribing",
                              !.calls = <<"transcription">>,
                              !.printed = <<"Transcribing audio">>]
    /\ ops' = ops + 1
    /\ UNCHANGED <<templates, disk, saved>>

\* The transcription call answers or fails; main runs to the completion call.
DoTranscribed ==
    /\ last.op = "pipeline"
    /\ last.pc = "transcribing"
    /\ \E outcome \in {Failed} \cup {Answered(text) : text \in Transcripts} :
          LET t == TranscribeAudio(outcome)
              m == MainAfterTranscription(last.main, last.args, templates, t)
          IN last' = [last EXCEPT !.pc = m.pc,
                                  !.transcription_call = <<outcome>>,
                                  !.transcribed = <<t>>,
                                  !.request = m.request,
                                  !.call = m.call,
                                  !.calls = IF m.call # << >> THEN Append(@, "completion") ELSE @,
                                  !.printed = @ \o t.printed \o m.printed]
    /\ UNCHANGED <<templates, disk, saved, ops>>

\* The completion call answers or fails; main prints and returns.
DoCompleted ==
    /\ last.op = "pipeline"
    /\ last.pc = "completing"
    /\ \E outcome \in {Failed} \cup {Answered(text) : text \in PipelineReplies} :
          LET g == IF last.main = "composer"
                   THEN AnalyzeTranscriptionWithTemplateReturn(outcome)
                   ELSE AnalyzeTranscriptionReturn(outcome)
              f == MainAfterAnalysis(g)
          IN last' = [last EXCEPT !.pc = "done",
                                  !.completion_call = <<outcome>>,
                                  !.analyzed = <<g>>,
                                  !.printed = @ \o g.printed \o f.printed,
                                  !.results = f.results]
    /\ UNCHANGED <<templates, disk, saved, ops>>

NextPipeline == DoMain \/ DoTranscribed \/ DoCompleted

SpecPipeline == Init /\ [][NextPipeline]_vars

-----------------------------------------------------------------------------
(* Properties of the pipeline *)

Printed(line) == \E i \in 1..Len(last.printed) : last.printed[i] = line
Invoked(call) == Cardinality({i \in 1..Len(last.calls) : last.calls[i] = call})

\* C12: a failure of the transcription call or of the completion call is
\* caught where the call is made: transcribe_audio and the analyzer return
\* to main without raising, and what they return is None.
C12_RemoteFailureGivesNone ==
    last.op = "pipeline" =>
        /\ last.transcription_call = <<Failed>> =>
              /\ last.transcribed # << >>
              /\ ~last.transcribed[1].raised
              /\ last.transcribed[1].result = << >>
        /\ last.completion_call = <<Failed>> =>
              /\ last.analyzed # << >>
              /\ ~last.analyzed[1].raised
              /\ last.analyzed[1].result = << >>
        /\ ~Printed("An unexpected error occurred")

\* The completion call has failed and main was told so by a None.
C12_Witness ==
    /\ last.op = "pipeline"
    /\ last.completion_call = <<Failed>>
    /\ last.analyzed # << >>
    /\ last.analyzed[1].result = << >>
    /\ Printed("Failed to get analysis response.")

\* The transcription call has failed and main was told so by a None.
TranscriptionFailureReported ==
    /\ last.op = "pipeline"
    /\ last.transcription_call = <<Failed>>
    /\ last.transcribed[1].result = << >>
    /\ Printed("Failed to transcribe audio.")

\* C13: within one invocation the completion call is invoked at most once,
\* and only after the transcription call has returned a transcript; when
\* transcribe_audio returns None the completion call is never invoked and no
\* analysis result is printed.
C13_CallsOrdered ==
    last.op = "pipeline" =>
        /\ Invoked("completion") <= 1
        /\ Invoked("completion") = 1 =>
              /\ last.calls = <<"transcription", "completion">>
              /\ last.transcription_call # << >>
              /\ last.transcription_call[1].kind = "answered"
              /\ last.transcribed # << >>
              /\ last.transcribed[1].result # << >>
        /\ (last.transcribed # << >> /\ last.transcribed[1].result = << >>) =>
              /\ Invoked("completion") = 0
              /\ last.call = << >>
              /\ last.results = << >>
              /\ ~Printed("Analysis Results")

\* Both calls were invoked, in order, and the analysis was printed.
C13_Witness ==
    /\ last.op = "pipeline"
    /\ last.pc = "done"
    /\ last.calls = <<"transcription", "completion">>
    /\ last.results # << >>
    /\ Printed("Analysis Results")

\* An invocation has ended after a failed transcription.
StoppedAfterFailedTranscription ==
    /\ last.op = "pipeline"
    /\ last.pc = "done"
    /\ last.transcription_call = <<Failed>>
    /\ last.calls = <<"transcription">>
    /\ last.results = << >>

-----------------------------------------------------------------------------
(* Properties of the store: listing, failed saves, memory and disk *)

Elements(l) == {l[i] : i \in 1..Len(l)}
NoDuplicates(l) == \A i, j \in 1..Len(l) : i # j => l[i] # l[j]
NamesOfCategory(c) == {templates[i].name : i \in {j \in 1..Len(templates) : templates[j].category = c}}

\* C14: list_templates(category) returns exactly the registered names whose
\* record has that category, list_templates() returns every registered name
\* once; the listing of the workflow shows each category's names.
C14_ListTemplatesExact ==
    /\ \A c \in CategoryMembers :
          /\ Elements(ListTemplates(templates, <<c>>)) = NamesOfCategory(c)
          /\ NoDuplicates(ListTemplates(templates, <<c>>))
    /\ Elements(ListTemplates(templates, << >>)) = RegisteredNames
    /\ NoDuplicates(ListTemplates(templates, << >>))
    /\ (last.op = "manage" /\ last.printed = "listing") =>
          /\ \A i \in 1..Len(last.listing) :
                \E c \in CategoryMembers :
                   /\ CategoryValue(c) = last.listing[i].category
                   /\ {last.listing[i].lines[k].name : k \in 1..Len(last.listing[i].lines)}
                         = NamesOfCategory(c)
          /\ \A c \in CategoryMembers :
                NamesOfCategory(c) # {} =>
                   \E i \in 1..Len(last.listing) : last.listing[i].category = CategoryValue(c)

\* The templates were listed after a save registered a built-in name under
\* another category.
C14_Witness ==
    /\ last.op = "manage"
    /\ last.printed = "listing"
    /\ summary \in NamesOfCategory("CUSTOM")
    /\ summary \notin NamesOfCategory("ANALYSIS")
    /\ \E i \in 1..Len(last.listing) :
          /\ last.listing[i].category = "custom"
          /\ \E k \in 1..Len(last.listing[i].lines) : last.listing[i].lines[k].name = summary

-----------------------------------------------------------------------------
(* Properties of the analysis calls: the store *)

\* C15: an analysis call leaves the templates as they were, whatever the
\* overrides and whether the completion call answers or fails: no step of a
\* call changes the Template Store or its files, and the analyzer's own
\* table after the call is the table it was built with.
C15_AnalysisLeavesStoreUnchanged ==
    /\ [][(last.op = "analysis" \/ last'.op = "analysis") =>
             (templates' = templates /\ disk' = disk)]_vars
    /\ [](Analyzing => IF last.analyzer = "composer"
                       THEN last.store = AnalyzerTemplates
                       ELSE last.store = templates)

\* An analysis with a temperature override, on a store holding a saved
\* template, has ended with a failed completion call.
C15_Witness ==
    /\ Analyzing
    /\ last.status = "returned"
    /\ last.result = << >>
    /\ TemperatureGiven
    /\ GetTemplate(templates, qa) # << >>
    /\ last.store = IF last.analyzer = "composer" THEN AnalyzerTemplates ELSE templates

\* The same for the analyzer of gpt_analyzer.py.
ComposerAnalysisWithOverridesEnded ==
    /\ ByComposer
    /\ last.status = "returned"
    /\ TemperatureGiven
    /\ last.store = AnalyzerTemplates

-----------------------------------------------------------------------------
(* Properties of the store: failed saves *)

\* C16: save_template validates nothing and writes the file first.  A save
\* fails exactly when the file cannot be opened or written, the failure
\* reaches the caller, and the mapping is then what it was before the call;
\* a save that can write its file succeeds whatever the record holds, and
\* registers the record.
C16_FailedSaveLeavesMapping ==
    [][(last'.op = "save" /\ ops' = ops + 1) =>
          LET t == last'.template
              path == TemplatePath(t.name)
          IN /\ last'.raised <=> (last'.fault # "ok" \/ path.where = "missing")
             /\ last'.raised => (templates' = templates /\ saved' = saved)
             /\ ~last'.raised =>
                   /\ GetTemplate(templates', t.name) = <<t>>
                   /\ path \in DOMAIN disk'
                   /\ disk'[path] = <<ToDict(t)>>]_vars

\* A save under a registered name has failed while writing: the file is
\* damaged and the mapping still holds the record it held.
C16_Witness ==
    /\ last.op = "save"
    /\ last.raised
    /\ last.fault = "write"
    /\ TemplatePath(last.template.name) \in DOMAIN disk
    /\ disk[TemplatePath(last.template.name)] = << >>
    /\ GetTemplate(templates, last.template.name) # << >>
    /\ GetTemplate(templates, last.template.name) # <<last.template>>

\* A record that validate_template rejects has been saved.
InvalidRecordSaved ==
    /\ last.op = "save"
    /\ ~last.raised
    /\ ValidateTemplate(last.template).errors # << >>
    /\ GetTemplate(templates, last.template.name) = <<last.template>>

-----------------------------------------------------------------------------
(* Properties of the store: memory and disk *)

\* Two mappings hold the same names and an equal record for each name.
SameMapping(a, b) ==
    /\ {a[i].name : i \in 1..Len(a)} = {b[i].name : i \in 1..Len(b)}
    /\ \A i \in 1..Len(a) : GetTemplate(b, a[i].name) = <<a[i]>>

\* No save has left a damaged file behind: every file holds what a
\* successful save wrote.
OnlySuccessfulWrites == \A p \in DOMAIN disk : disk[p] # << >>

\* C17: after successful saves into a store initialized on a storage
\* location, a store newly initialized on the same location holds the same
\* mapping as the live store.
C17_MemoryMatchesDisk ==
    OnlySuccessfulWrites =>
        \A store \in Reloaded : SameMapping(store, templates)

\* The agreement of C17 while every registered name is the name of a file
\* directly inside the storage directory.
MemoryMatchesDiskInsideDirectory ==
    (OnlySuccessfulWrites /\ \A i \in 1..Len(templates) : ~HasSeparator(templates[i].name)) =>
        \A store \in Reloaded : SameMapping(store, templates)

\* Saved templates are registered, on disk, and found again by a new store.
MemoryMatchesDiskReached ==
    /\ OnlySuccessfulWrites
    /\ last.op = "save"
    /\ ~last.raised
    /\ Cardinality(Glob(disk)) >= 2
    /\ \A store \in Reloaded : SameMapping(store, templates)

-----------------------------------------------------------------------------
(* config.py: APIConfig and get_config.  os.environ and a .env file are     *)
(* functions from variable names to values (strings as sequences of         *)
(* characters); a variable that is not set is not in the DOMAIN.            *)

NoEnv == << >>
Setenv(name, value) == name :> value

\* load_dotenv(path): the variables of the file that os.environ does not
\* hold yet are added; a variable already set keeps its value.
LoadDotenv(environ, file) == environ @@ file

\* os.getenv(name, fallback)
Getenv(environ, name, fallback) == IF name \in DOMAIN environ THEN environ[name] ELSE fallback

\* api_key.startswith('sk-')
StartsWithSk(s) == Len(s) >= 3 /\ SubSeq(s, 1, 3) = <<"s", "k", "-">>

\* APIConfig.from_env: [raised, environ, config]; env_file << >> is None,
\* dotenv << >> is "no .env in the current or parent directory".
FromEnv(environ, env_file, dotenv, other) ==
    LET loaded == IF env_file # << >> THEN LoadDotenv(environ, other)
                  ELSE IF dotenv # << >> THEN LoadDotenv(environ, dotenv[1])
                  ELSE environ
        api_key == Getenv(loaded, "OPENAI_API_KEY", None)
    IN IF ~Truthy(api_key)
       THEN [raised |-> TRUE, environ |-> loaded, config |-> << >>]
       ELSE [raised |-> FALSE, environ |-> loaded,
             config |-> << [api_key |-> api_key,
                            model |-> Getenv(loaded, "OPENAI_MODEL", <<"gpt-4o">>)] >>]

\* APIConfig.validate: TRUE when it raises ValueError.
ValidateRaises(config) ==
    \/ ~Truthy(config.api_key)
    \/ ~Truthy(config.model)
    \/ ~StartsWithSk(config.api_key)

\* get_config(env_file) with _config_instance = instance: the instance is
\* assigned before it is validated.
GetConfig(instance, environ, env_file, dotenv, other) ==
    IF instance # << >>
    THEN [raised |-> FALSE, instance |-> instance, environ |-> environ,
          returned |-> instance, created |-> FALSE]
    ELSE LET f == FromEnv(environ, env_file, dotenv, other)
         IN IF f.raised
            THEN [raised |-> TRUE, instance |-> << >>, environ |-> f.environ,
                  returned |-> << >>, created |-> FALSE]
            ELSE IF ValidateRaises(f.config[1])
            THEN [raised |-> TRUE, instance |-> f.config, environ |-> f.environ,
                  returned |-> << >>, created |-> TRUE]
            ELSE [raised |-> FALSE, instance |-> f.config, environ |-> f.environ,
                  returned |-> f.config, created |-> TRUE]

ApiKeys == { << >>, <<"a", "b", "c">>, <<"s", "k">>, <<"s", "k", "-", "a">> }
Models == { << >>, <<"gpt-4">> }

Environs ==
    {NoEnv} \cup {Setenv("OPENAI_API_KEY", k) : k \in ApiKeys}
            \cup {Setenv("OPENAI_MODEL", m) : m \in Models}
            \cup {Setenv("OPENAI_API_KEY", k) @@ Setenv("OPENAI_MODEL", m) :
                     k \in ApiKeys, m \in Models}

\* The .env of the current directory: none, or one of these files.
DotenvFiles ==
    { << >>,
      << Setenv("OPENAI_API_KEY", <<"s", "k", "-", "b">>) >>,
      << Setenv("OPENAI_API_KEY", <<"x", "y", "z">>) @@ Setenv("OPENAI_MODEL", << >>) >> }

\* The file a caller names in env_file.
OtherEnvFile == Setenv("OPENAI_API_KEY", <<"s", "k", "-", "c">>) @@ Setenv("OPENAI_MODEL", <<"gpt-4">>)

\* Module load: _config_instance is None.
InitConfig ==
    /\ disk = << >>
    /\ templates = NewTemplateManager(<< >>, << >>)
    /\ saved = << >>
    /\ ops = 0
    /\ \E environ \in Environs, dotenv \in DotenvFiles :
          last = [op |-> "config", environ |-> environ, dotenv |-> dotenv,
                  instance |-> << >>, created |-> 0, calls |-> 0,
                  raised |-> FALSE, returned |-> << >>, rejected |-> FALSE]

\* get_config(env_file)
DoGetConfig ==
    /\ last.op = "config"
    /\ ops < MaxOps
    /\ \E env_file \in { << >>, <<"other.env">> } :
          LET g == GetConfig(last.instance, last.environ, env_file, last.dotenv, OtherEnvFile)
          IN last' = [last EXCEPT !.environ = g.environ,
                                  !.instance = g.instance,
                                  !.created = IF g.created THEN @ + 1 ELSE @,
                                  !.calls = @ + 1,
                                  !.raised = g.raised,
                                  !.returned = g.returned,
                                  !.rejected = @ \/ (g.raised /\ g.created)]
    /\ ops' = ops + 1
    /\ UNCHANGED <<templates, disk, saved>>

NextConfig == DoGetConfig

SpecConfig == InitConfig /\ [][NextConfig]_vars

\* What APIConfig.validate accepts.
ValidConfig(config) ==
    /\ config.api_key # None /\ config.api_key # << >>
    /\ Len(config.api_key) >= 3
    /\ config.api_key[1] = "s" /\ config.api_key[2] = "k" /\ config.api_key[3] = "-"
    /\ config.model # None /\ config.model # << >>

\* C18: every configuration get_config returns passes validate, also after
\* an earlier call raised a validation error, and a configuration is created
\* at most once.
C18_ReturnsOnlyValidConfig ==
    last.op = "config" =>
        /\ last.returned # << >> => ValidConfig(last.returned[1])
        /\ last.created <= 1

\* The statement of C18 as long as no call has raised a validation error.
ReturnsOnlyValidConfigUntilRejected ==
    last.op = "config" =>
        /\ (last.returned # << >> /\ ~last.rejected) => ValidConfig(last.returned[1])
        /\ last.created <= 1

\* A valid configuration was returned by a second call without being
\* created again.
ValidConfigReturnedAgain ==
    /\ last.op = "config"
    /\ last.calls >= 2
    /\ last.created = 1
    /\ last.returned # << >>
    /\ ValidConfig(last.returned[1])

=============================================================================
